---- MODULE Spec2Model ----
(***************************************************************************)
(* Model of the meeting feed of com-brightsign-stuff:                      *)
(*   src/meetings/feedparser.js  FeedItem, Feed (the dual-indexed          *)
(*                               collection and its update)                *)
(*   src/meetings/main.js        MeetingFeed, buildFeed, updateFeed and    *)
(*                               the buildAndUpdate poll loop              *)
(*                                                                         *)
(* A JavaScript Date is an object: it has an identity (ref) and a value    *)
(* (ms, NaN for an Invalid Date).  Map keys that are Dates are compared by *)
(* identity, relational operators compare the values.                      *)
(***************************************************************************)
EXTENDS Integers, Sequences, FiniteSets, TLC

\* Bounds of the model.
MaxTime == 2        \* start times of raw entries are 1..MaxTime
MaxBuild == 2       \* build timestamps are 1..MaxBuild
MaxItems == 2       \* a raw channel holds at most MaxItems entries
MaxDates == 3       \* at most MaxDates Date objects become keys of itemsByStartTime

\* The time value of an Invalid Date (Date.parse of an unparsable string).
NaN == -1

\* A channel without a lastBuildDate element: querySelector returns null.
Missing == -2

Titles == {"A", "B"}
Times == 1..MaxTime
BuildDates == (1..MaxBuild) \cup {NaN}

\* A raw <item> element: its title and the instant its EventDates/EventTimes
\* texts parse to (NaN when the Date constructor cannot parse them).
Entries == [title : Titles, start : Times \cup {NaN}]

RECURSIVE SeqsUpTo(_, _)
SeqsUpTo(S, n) ==
    IF n = 0 THEN {<< >>}
    ELSE LET shorter == SeqsUpTo(S, n - 1)
         IN  shorter \cup {Append(s, e) : s \in {t \in shorter : Len(t) = n - 1}, e \in S}

\* A raw channel document: the channel's attributes and its <item> elements.
Docs == [title : {"Meetings"}, link : {"http://feed"}, description : {"calendar"},
         lastBuildDate : BuildDates \cup {Missing}, items : SeqsUpTo(Entries, MaxItems)]

\* A vacated array slot (what `delete subArr[i]` leaves; iteration yields undefined).
Hole == [title |-> "<empty>", startTime |-> [ref |-> 0, ms |-> NaN]]
\* The absence of an item in a result.
NoItem == [title |-> "<none>", startTime |-> [ref |-> 0, ms |-> NaN]]

\* The empty Map.
EmptyMap == [k \in {} |-> NoItem]

VARIABLES
    title, link, buildDate, description,    \* Feed attributes
    itemsByStartTime,                       \* Feed.itemsByStartTime: Date object -> array
    itemsById,                              \* Feed.itemsById: id -> FeedItem
    nextDate,                               \* ref of the next Date object that becomes a key
    last,                                   \* the last call: what it was given, what it returned or threw
    pc,                                     \* buildAndUpdate: where the loop is
    feedObj,                                \* buildAndUpdate: "null" or "feed"
    listEl,                                 \* the ids of the elements of the display list
    stopUpdating,                           \* window.stopUpdating
    maxItems,                               \* the maxItems parameter of the page
    timers,                                 \* weather: per key (or callback), the delays of the pending setTimeout calls
    updates,                                \* weather: per key, the number of update() promises pending
    nextUpdateTimes,                        \* weather: nextUpdateTimes[key]
    stopWeather                             \* window.stopWeather

feedVars == <<title, link, buildDate, description, itemsByStartTime, itemsById, nextDate>>
loopVars == <<pc, feedObj, listEl, stopUpdating, maxItems>>
weatherVars == <<timers, updates, nextUpdateTimes, stopWeather>>
vars == <<feedVars, last, loopVars, weatherVars>>

----------------------------------------------------------------------------
\* FeedItem

\* get timeStamp(): this.startTime.valueOf()
timeStamp(item) == item.startTime.ms

\* get id(): `${this.title} || ${this.timeStamp}`
id(item) == <<item.title, timeStamp(item)>>

\* new Date(dtStr) for the entry's start: a fresh Date object with the parsed value.
parseCalendarEventDate(entry, ref) == [ref |-> ref, ms |-> entry.start]

\* A parse that takes every start for a valid date.
IsNeverInvalid(date) == FALSE

\* startTime.toString() == 'Invalid Date'
IsInvalidDate(date) == date.ms = NaN

\* FeedItem.parse: [err, item].
parse(entry, ref) ==
    LET startTime == parseCalendarEventDate(entry, ref)
    IN  IF IsInvalidDate(startTime)
        THEN [err |-> "invalid date", item |-> NoItem]
        ELSE [err |-> "none", item |-> [title |-> entry.title, startTime |-> startTime]]

----------------------------------------------------------------------------
\* Feed.  The operators work on a record f of the feed's two maps, the Date
\* allocator, and the outcome fields err / created / item of the call.

Has(map, key) == key \in DOMAIN map

\* An indexOf that finds nothing.
indexOfNothing(subArr, item) == 0

\* subArr.indexOf(item): the first index holding item, 0 for JavaScript's -1.
\* Vacated slots are skipped.
indexOf(subArr, item) ==
    LET found == {i \in 1..Len(subArr) : subArr[i] # Hole /\ subArr[i] = item}
    IN  IF found = {} THEN 0 ELSE CHOOSE i \in found : \A j \in found : i <= j

\* delete subArr[subIndex]: the slot is vacated, the length stays.
DeleteSlot(subArr, subIndex) == [subArr EXCEPT ![subIndex] = Hole]

\* Map.set / Map.delete
MapSet(map, key, val) == [k \in DOMAIN map \cup {key} |-> IF k = key THEN val ELSE map[k]]
MapDelete(map, key) == [k \in DOMAIN map \ {key} |-> map[k]]

\* addChild that returns the stored map of ids untouched.
addChildBucketOnly(f, feedItem) ==
    LET itemDt == feedItem.startTime
        byStart == IF ~Has(f.itemsByStartTime, itemDt)
                   THEN MapSet(f.itemsByStartTime, itemDt, << >>)
                   ELSE f.itemsByStartTime
    IN  [f EXCEPT !.itemsByStartTime = MapSet(byStart, itemDt, Append(byStart[itemDt], feedItem))]

\* Feed.addChild
addChild(f, feedItem) ==
    LET itemDt == feedItem.startTime
        byStart == IF ~Has(f.itemsByStartTime, itemDt)
                   THEN MapSet(f.itemsByStartTime, itemDt, << >>)
                   ELSE f.itemsByStartTime
    IN  [f EXCEPT !.itemsById = MapSet(f.itemsById, id(feedItem), feedItem),
                  !.itemsByStartTime = MapSet(byStart, itemDt, Append(byStart[itemDt], feedItem))]

\* removeChild that ignores an id that is not in the feed.
removeChildLenient(f, itemId) ==
    IF ~Has(f.itemsById, itemId)
    THEN f
    ELSE LET item == f.itemsById[itemId]
             subArr == f.itemsByStartTime[item.startTime]
         IN  [f EXCEPT !.itemsByStartTime =
                           MapSet(f.itemsByStartTime, item.startTime,
                                  DeleteSlot(subArr, indexOf(subArr, item))),
                       !.itemsById = MapDelete(f.itemsById, itemId)]

\* Feed.removeChild
removeChild(f, itemId) ==
    IF ~Has(f.itemsById, itemId)
    THEN [f EXCEPT !.err = "not in feed"]
    ELSE LET item == f.itemsById[itemId]
             subArr == f.itemsByStartTime[item.startTime]
             subIndex == indexOf(subArr, item)
         IN  IF subIndex = 0
             THEN [f EXCEPT !.err = "item not in subArray"]
             ELSE LET arr == DeleteSlot(subArr, subIndex)
                  IN  [f EXCEPT !.itemsByStartTime =
                                    IF Len(arr) = 0
                                    THEN MapDelete(f.itemsByStartTime, item.startTime)
                                    ELSE MapSet(f.itemsByStartTime, item.startTime, arr),
                                !.itemsById = MapDelete(f.itemsById, itemId)]

\* parseChild that adds the parsed child whether or not its id is in the feed.
parseChildNoDedup(f, itemEl) ==
    LET p == parse(itemEl, f.nextDate)
    IN  IF p.err # "none"
        THEN [f EXCEPT !.err = p.err]
        ELSE [addChild(f, p.item) EXCEPT !.created = TRUE, !.item = p.item,
                                         !.nextDate = f.nextDate + 1]

\* Feed.parseChild.  The Date a parse allocates is counted only when its item
\* enters the feed; the Dates of rejected and duplicate entries are garbage.
parseChild(f, itemEl) ==
    LET p == parse(itemEl, f.nextDate)
        child == p.item
    IN  IF p.err # "none"
        THEN [f EXCEPT !.err = p.err]
        ELSE IF Has(f.itemsById, id(child))
        THEN [f EXCEPT !.created = FALSE, !.item = f.itemsById[id(child)]]
        ELSE [addChild(f, child) EXCEPT !.created = TRUE, !.item = child,
                                        !.nextDate = f.nextDate + 1]

\* [...this.itemsById.keys()]: the ids in Map insertion order.  Every item enters
\* the Map with the Date allocated for it, so insertion order is the order of refs.
RECURSIVE keysFrom(_, _)
keysFrom(map, ks) ==
    IF ks = {} THEN << >>
    ELSE LET k == CHOOSE x \in ks : \A y \in ks : map[x].startTime.ref <= map[y].startTime.ref
         IN  <<k>> \o keysFrom(map, ks \ {k})

keys(map) == keysFrom(map, DOMAIN map)

\* getElemText(elem, 'lastBuildDate') reads textContent of null when the element
\* is missing, a TypeError.
HasBuildDate(doc) == doc.lastBuildDate # Missing

\* parsePubDate(getElemText(elem, 'lastBuildDate')): the value of the parsed Date.
parsePubDate(doc) == doc.lastBuildDate

\* The comparison turned round: buildDate < this.buildDate.
Older(a, b) == a # NaN /\ b # NaN /\ a < b

\* A gate that takes no build date for newer.
NeverNewer(a, b) == FALSE

\* buildDate > this.buildDate on two Dates: a comparison with NaN is false.
Newer(a, b) == a # NaN /\ b # NaN /\ a > b

\* for (const childElem of elem.querySelectorAll('item')) of update: stops at the
\* first entry whose parse throws; what was inserted before stays inserted.
RECURSIVE parseChildren(_, _, _)
parseChildren(f, items, i) ==
    IF i > Len(items) \/ f.err # "none" THEN f
    ELSE LET g == parseChild(f, items[i])
         IN  parseChildren([g EXCEPT !.changed = f.changed \/ (g.err = "none" /\ g.created)],
                           items, i + 1)

\* update without the test of itemsToRemove.size.
changedNotBySize(changed, itemsToRemove) == changed

\* if (itemsToRemove.size){ changed = true; }
changedBySize(changed, itemsToRemove) == changed \/ Len(itemsToRemove) > 0

\* update that removes none of the ids of itemsToRemove.
removeChildrenNone(f, itemIds, i) == f

\* itemsToRemove.forEach(removeChild): stops at the first removeChild that throws.
RECURSIVE removeChildren(_, _, _)
removeChildren(f, itemIds, i) ==
    IF i > Len(itemIds) \/ f.err # "none" THEN f
    ELSE removeChildren(removeChild(f, itemIds[i]), itemIds, i + 1)

\* Feed.update: f with the fields skipped / changed / removed / err of the call.
update(f, doc) ==
    IF ~HasBuildDate(doc) THEN [f EXCEPT !.err = "null element"]
    ELSE IF Newer(parsePubDate(doc), f.buildDate)
    THEN [f EXCEPT !.skipped = TRUE, !.changed = FALSE, !.removed = {}]
    ELSE LET itemsToRemove == keys(f.itemsById)
             parsed == parseChildren([f EXCEPT !.changed = FALSE], doc.items, 1)
         IN  IF parsed.err # "none" THEN parsed
             ELSE LET sized == [parsed EXCEPT !.changed = changedBySize(parsed.changed, itemsToRemove)]
                      done == removeChildren(sized, itemsToRemove, 1)
                  IN  IF done.err # "none" THEN done
                      ELSE [done EXCEPT !.removed = {itemsToRemove[i] : i \in 1..Len(itemsToRemove)}]

\* sortedStartTimes without the sort: the keys in Map insertion order.
RECURSIVE keysUnsorted(_)
keysUnsorted(dts) ==
    IF dts = {} THEN << >>
    ELSE LET d == CHOOSE x \in dts : \A y \in dts : x.ref <= y.ref
         IN  <<d>> \o keysUnsorted(dts \ {d})

\* sortedStartTimes: the keys of itemsByStartTime sorted by getTime().  The sort
\* is stable, so Dates of equal value stay in Map insertion order (the order of refs).
RECURSIVE sortDates(_)
sortDates(dts) ==
    IF dts = {} THEN << >>
    ELSE LET d == CHOOSE x \in dts : \A y \in dts :
                      x.ms < y.ms \/ (x.ms = y.ms /\ x.ref <= y.ref)
         IN  <<d>> \o sortDates(dts \ {d})

sortedStartTimes(byStart) == sortDates(DOMAIN byStart)

\* sortedItems: yield* of each bucket in turn; a vacated slot is yielded as undefined.
RECURSIVE concatBuckets(_, _, _)
concatBuckets(byStart, dts, i) ==
    IF i > Len(dts) THEN << >>
    ELSE byStart[dts[i]] \o concatBuckets(byStart, dts, i + 1)

sortedItems(byStart) == concatBuckets(byStart, sortedStartTimes(byStart), 1)

\* nextItem: the first of sortedItems, NoItem for undefined.
nextItem(byStart) ==
    LET items == sortedItems(byStart)
    IN  IF Len(items) = 0 \/ items[1] = Hole THEN NoItem ELSE items[1]

\* maxItems of main.js when the page has no maxItems parameter (null).
NoLimit == -1

\* MeetingFeed.sortedHtmlElems spread into an array: [err, elems].  item.buildHtml()
\* on undefined throws a TypeError; an element is known by the id of its item.
RECURSIVE htmlElems(_, _, _, _)
htmlElems(items, limit, i, elems) ==
    IF i >= Len(items) THEN [err |-> "none", elems |-> elems]
    ELSE IF limit # NoLimit /\ i >= limit THEN [err |-> "none", elems |-> elems]
    ELSE IF items[i + 1] = Hole THEN [err |-> "undefined item", elems |-> elems]
    ELSE htmlElems(items, limit, i + 1, Append(elems, id(items[i + 1])))

sortedHtmlElems(byStart, limit) == htmlElems(sortedItems(byStart), limit, 0, << >>)

----------------------------------------------------------------------------
\* The weather and forecast scheduler of main.js: its data.

Keys == {"weather", "forecast"}

\* const weatherUpdateInterval = 60000
weatherUpdateInterval == 60000
\* Math.max(diffMs, 1000)
MinDelay == 1000

\* getNextUpdateTime gives null (no next_update_iso in the data) or a Date, here
\* its distance in ms from the `now` of the scheduleNextUpdate that reads it.
NoTime == -1
NextUpdateTimes == {NoTime, -1000, 500, 5000}

\* The delayMs of scheduleNextUpdate.
delayMs(nextUpdateTime) ==
    IF nextUpdateTime = NoTime THEN weatherUpdateInterval
    ELSE IF nextUpdateTime > 0
    THEN (IF nextUpdateTime > MinDelay THEN nextUpdateTime ELSE MinDelay)
    ELSE weatherUpdateInterval

\* The scheduler when the script has been loaded: nextUpdateTimes read from the
\* page, scheduleNextUpdate('weather') and scheduleNextUpdate('forecast') called.
WeatherAtLoad(times) ==
    /\ nextUpdateTimes = times
    /\ timers = [key \in Keys |-> <<delayMs(times[key])>>]
    /\ updates = [key \in Keys |-> 0]
    /\ stopWeather = FALSE

----------------------------------------------------------------------------
\* The record of a call: which, how it ended, what it returned.
NoLast == [op |-> "new", resp |-> "none", err |-> "none", created |-> FALSE,
           skipped |-> FALSE, changed |-> FALSE]

\* The feed as the record the operators work on.
ThisFeed == [buildDate |-> buildDate, itemsByStartTime |-> itemsByStartTime,
             itemsById |-> itemsById, nextDate |-> nextDate,
             err |-> "none", created |-> FALSE, item |-> NoItem,
             skipped |-> FALSE, changed |-> FALSE, removed |-> {}]

\* The calls allocate at most MaxDates Date keys.
WithinDates(f) == f.nextDate <= MaxDates + 1

Store(f) ==
    /\ itemsByStartTime' = f.itemsByStartTime
    /\ itemsById' = f.itemsById
    /\ nextDate' = f.nextDate

Outcome(op, resp, f) ==
    [op |-> op, resp |-> resp, err |-> f.err, created |-> f.created,
     skipped |-> f.skipped, changed |-> f.changed]

----------------------------------------------------------------------------
\* The Feed used as a library: a constructed feed and calls of its methods.

InitFeed ==
    /\ title = "Meetings" /\ link = "http://feed" /\ description = "calendar"
    /\ buildDate \in BuildDates
    /\ itemsByStartTime = EmptyMap
    /\ itemsById = EmptyMap
    /\ nextDate = 1
    /\ last = NoLast
    /\ pc = "none" /\ feedObj = "feed" /\ listEl = << >>
    /\ stopUpdating = FALSE /\ maxItems = NoLimit
    /\ WeatherAtLoad([key \in Keys |-> NoTime])

ParseChild(itemEl) ==
    \E f \in {parseChild(ThisFeed, itemEl)} :
        /\ WithinDates(f)
        /\ Store(f)
        /\ last' = Outcome("parseChild", "none", f)
        /\ UNCHANGED <<title, link, buildDate, description, loopVars, weatherVars>>

RemoveChild(itemId) ==
    \E f \in {removeChild(ThisFeed, itemId)} :
        /\ Store(f)
        /\ last' = Outcome("removeChild", "none", f)
        /\ UNCHANGED <<title, link, buildDate, description, loopVars, weatherVars>>

Update(doc) ==
    \E f \in {update(ThisFeed, doc)} :
        /\ WithinDates(f)
        /\ Store(f)
        /\ last' = Outcome("update", "doc", f)
        /\ UNCHANGED <<title, link, buildDate, description, loopVars, weatherVars>>

\* A traversal of sortedItems() to its end: the generators sort a copy of the keys
\* and read the buckets; nothing of the feed is assigned.
SortedItems ==
    /\ last' = [NoLast EXCEPT !.op = "sortedItems"]
    /\ UNCHANGED <<feedVars, loopVars, weatherVars>>

Ids == Titles \X Times

CallParseChild == \E itemEl \in Entries : ParseChild(itemEl)
CallRemoveChild == \E itemId \in Ids : RemoveChild(itemId)
CallUpdate == \E doc \in Docs : Update(doc)

Next == CallParseChild \/ CallRemoveChild \/ CallUpdate \/ SortedItems

Spec == InitFeed /\ [][Next]_vars

----------------------------------------------------------------------------
\* The scenario of three meetings: A at 09:00, B at 10:00, C at 11:00.

ItemA == [title |-> "A", start |-> 9]
ItemB == [title |-> "B", start |-> 10]
ItemC == [title |-> "C", start |-> 11]
ScenarioEntries == {ItemA, ItemB, ItemC}
ScenarioDocs == [title : {"Meetings"}, link : {"http://feed"}, description : {"calendar"},
                 lastBuildDate : BuildDates \cup {Missing},
                 items : SeqsUpTo(ScenarioEntries, MaxItems)]

ScenarioParseChild == \E itemEl \in ScenarioEntries : ParseChild(itemEl)
ScenarioUpdate == \E doc \in ScenarioDocs : Update(doc)

NextScenario == ScenarioParseChild \/ ScenarioUpdate

SpecScenario == InitFeed /\ [][NextScenario]_vars

----------------------------------------------------------------------------
\* The poll loop of main.js: buildAndUpdate with buildFeed and updateFeed.

\* Feed.parse: a new Feed with the channel's build date, then parseChild of every
\* <item>; the first parse that throws ends it.
FeedParse(doc) ==
    LET feed == [buildDate |-> parsePubDate(doc), itemsByStartTime |-> EmptyMap,
                 itemsById |-> EmptyMap, nextDate |-> 1,
                 err |-> "none", created |-> FALSE, item |-> NoItem,
                 skipped |-> FALSE, changed |-> FALSE, removed |-> {}]
    IN  IF ~HasBuildDate(doc) THEN [feed EXCEPT !.buildDate = NaN, !.err = "null element"]
        ELSE parseChildren(feed, doc.items, 1)

\* const maxItems = params.has('maxItems') ? parseInt(params.get('maxItems')) : null
MaxRows == 1
MaxItemsParams == {NoLimit} \cup (0..MaxRows)

InitLoop ==
    /\ title = "" /\ link = "" /\ description = ""
    /\ buildDate = NaN
    /\ itemsByStartTime = EmptyMap
    /\ itemsById = EmptyMap
    /\ nextDate = 1
    /\ last = NoLast
    /\ pc = "loop" /\ feedObj = "null" /\ listEl = << >>
    /\ stopUpdating = FALSE
    /\ maxItems \in MaxItemsParams
    /\ WeatherAtLoad([key \in Keys |-> NoTime])

\* while(!(window.stopUpdating))
Exit ==
    /\ pc = "loop" /\ stopUpdating
    /\ pc' = "done"
    /\ UNCHANGED <<feedVars, last, feedObj, listEl, stopUpdating, maxItems, weatherVars>>

\* The body of the loop entered without the test of window.stopUpdating.
StartBuildUntested ==
    /\ pc = "loop" /\ feedObj = "null"
    /\ pc' = "building"
    /\ UNCHANGED <<feedVars, last, feedObj, listEl, stopUpdating, maxItems, weatherVars>>

\* if (feedObj === null): feedObj = await buildFeed(), suspended in fetchFeed
StartBuild ==
    /\ pc = "loop" /\ ~stopUpdating /\ feedObj = "null"
    /\ pc' = "building"
    /\ UNCHANGED <<feedVars, last, feedObj, listEl, stopUpdating, maxItems, weatherVars>>

\* A loop that builds a new feed although it holds one.
StartRebuild ==
    /\ pc = "loop" /\ ~stopUpdating /\ feedObj = "feed"
    /\ pc' = "building"
    /\ UNCHANGED <<feedVars, last, feedObj, listEl, stopUpdating, maxItems, weatherVars>>

\* updateFeed begun while the timer of the cycle before is still pending.
StartUpdateEarly ==
    /\ pc = "timer" /\ ~stopUpdating /\ feedObj = "feed"
    /\ pc' = "updating"
    /\ UNCHANGED <<feedVars, last, feedObj, listEl, stopUpdating, maxItems, weatherVars>>

\* else: await updateFeed(feedObj), suspended in fetchFeed
StartUpdate ==
    /\ pc = "loop" /\ ~stopUpdating /\ feedObj = "feed"
    /\ pc' = "updating"
    /\ UNCHANGED <<feedVars, last, feedObj, listEl, stopUpdating, maxItems, weatherVars>>

\* The cycle ended by an exception: catch(e){ logger.error(e) } finally { waitForTimer() }
Failed(op, resp, err) == [NoLast EXCEPT !.op = op, !.resp = resp, !.err = err]

\* fetch() of buildFeed rejects
BuildRejected ==
    /\ pc = "building"
    /\ pc' = "timer"
    /\ last' = Failed("build", "reject", "fetch failed")
    /\ UNCHANGED <<feedVars, feedObj, listEl, stopUpdating, maxItems, weatherVars>>

\* fetchFeed returns null: getFeed returns the '__none__' feed and buildFeed null
BuildNoContent ==
    /\ pc = "building"
    /\ pc' = "timer"
    /\ last' = [NoLast EXCEPT !.op = "build", !.resp = "null"]
    /\ UNCHANGED <<feedVars, feedObj, listEl, stopUpdating, maxItems, weatherVars>>

\* fetchFeed returns a document: Feed.parse, then the elements are appended to listEl
BuildDoc(doc) ==
    /\ pc = "building"
    /\ pc' = "timer"
    /\ \E f \in {FeedParse(doc)} :
         /\ WithinDates(f)
         /\ IF f.err # "none"
            THEN /\ last' = Failed("build", "doc", f.err)
                 /\ UNCHANGED <<feedVars, feedObj, listEl>>
            ELSE IF doc.title = "__none__"
            THEN /\ last' = [NoLast EXCEPT !.op = "build", !.resp = "doc"]
                 /\ UNCHANGED <<feedVars, feedObj, listEl>>
            ELSE \E r \in {sortedHtmlElems(f.itemsByStartTime, maxItems)} :
                 IF r.err # "none"
                 THEN /\ last' = Failed("build", "doc", r.err)
                      /\ UNCHANGED <<feedVars, feedObj, listEl>>
                 ELSE /\ last' = [NoLast EXCEPT !.op = "build", !.resp = "doc"]
                      /\ title' = doc.title /\ link' = doc.link
                      /\ description' = doc.description
                      /\ buildDate' = f.buildDate
                      /\ Store(f)
                      /\ feedObj' = "feed"
                      /\ listEl' = listEl \o r.elems
    /\ UNCHANGED <<stopUpdating, maxItems, weatherVars>>

\* fetch() of fetchAndUpdate rejects
UpdateRejected ==
    /\ pc = "updating"
    /\ pc' = "timer"
    /\ last' = Failed("update", "reject", "fetch failed")
    /\ UNCHANGED <<feedVars, feedObj, listEl, stopUpdating, maxItems, weatherVars>>

\* The TypeError of the update cycle left uncaught: it ends buildAndUpdate.
UpdateNoContentUncaught ==
    /\ pc = "updating"
    /\ pc' = "done"
    /\ last' = Failed("update", "null", "not iterable")
    /\ UNCHANGED <<feedVars, feedObj, listEl, stopUpdating, maxItems, weatherVars>>

\* fetchFeed returns null: fetchAndUpdate returns false, and
\* [changed, itemsToRemove] = false throws a TypeError (false is not iterable)
UpdateNoContent ==
    /\ pc = "updating"
    /\ pc' = "timer"
    /\ last' = Failed("update", "null", "not iterable")
    /\ UNCHANGED <<feedVars, feedObj, listEl, stopUpdating, maxItems, weatherVars>>

\* fetchFeed returns a document: update, and when changed the list is emptied and
\* filled again from sortedHtmlElems
UpdateDoc(doc) ==
    /\ pc = "updating"
    /\ pc' = "timer"
    /\ \E f \in {update(ThisFeed, doc)} :
         /\ WithinDates(f)
         /\ Store(f)
         /\ IF f.err # "none" \/ ~f.changed
            THEN /\ last' = Outcome("update", "doc", f)
                 /\ UNCHANGED listEl
            ELSE \E r \in {sortedHtmlElems(f.itemsByStartTime, maxItems)} :
                 /\ last' = [Outcome("update", "doc", f) EXCEPT !.err = r.err]
                 /\ listEl' = IF r.err # "none" THEN << >> ELSE r.elems
    /\ UNCHANGED <<title, link, buildDate, description, feedObj, stopUpdating, maxItems, weatherVars>>

\* setTimeout(resolve, updateInterval * 1000) of waitForTimer fires
TimerFired ==
    /\ pc = "timer"
    /\ pc' = "loop"
    /\ UNCHANGED <<feedVars, last, feedObj, listEl, stopUpdating, maxItems, weatherVars>>

\* Something outside the loop sets window.stopUpdating
SetStop ==
    /\ ~stopUpdating /\ pc # "done"
    /\ stopUpdating' = TRUE
    /\ UNCHANGED <<feedVars, last, pc, feedObj, listEl, maxItems, weatherVars>>

BuildFetched == \E doc \in Docs : BuildDoc(doc)
UpdateFetched == \E doc \in Docs : UpdateDoc(doc)

NextLoop ==
    \/ Exit \/ StartBuild \/ StartUpdate
    \/ BuildRejected \/ BuildNoContent \/ BuildFetched
    \/ UpdateRejected \/ UpdateNoContent \/ UpdateFetched
    \/ TimerFired \/ SetStop

SpecLoop == InitLoop /\ [][NextLoop]_vars

\* setTimeout fires its callback once the interval has passed.
SpecLoopFair == SpecLoop /\ WF_vars(TimerFired)

\* The loop runs on: its synchronous steps are taken, the timer fires, and an
\* awaited fetch does not stay pending for ever (at the latest it is rejected).
SpecLoopLive ==
    /\ SpecLoop
    /\ WF_vars(Exit) /\ WF_vars(StartBuild) /\ WF_vars(StartUpdate)
    /\ WF_vars(TimerFired)
    /\ WF_vars(BuildRejected) /\ WF_vars(UpdateRejected)

----------------------------------------------------------------------------
\* The weather and forecast scheduler of main.js.  It shares nothing with the
\* meeting feed; each is modelled with the other at rest.

InitWeather ==
    /\ title = "" /\ link = "" /\ description = ""
    /\ buildDate = NaN
    /\ itemsByStartTime = EmptyMap
    /\ itemsById = EmptyMap
    /\ nextDate = 1
    /\ last = NoLast
    /\ pc = "none" /\ feedObj = "null" /\ listEl = << >>
    /\ stopUpdating = FALSE /\ maxItems = NoLimit
    /\ \E times \in [Keys -> NextUpdateTimes] : WeatherAtLoad(times)

\* scheduleNextUpdate(key): window.setTimeout(() => fetchAndUpdate(key), delayMs)
scheduleNextUpdate(key, times) ==
    [timers EXCEPT ![key] = Append(@, delayMs(times[key]))]

\* A timer that stays armed after it has fired, as one of setInterval does.
IntervalFetchAndUpdate(key) ==
    /\ timers[key] # << >>
    /\ timers' = timers
    /\ updates' = IF stopWeather THEN updates ELSE [updates EXCEPT ![key] = @ + 1]
    /\ UNCHANGED <<feedVars, last, loopVars, nextUpdateTimes, stopWeather>>

\* A timer of key fires: fetchAndUpdate(key) returns at once when stopWeather is
\* set, and otherwise calls update(), which is then suspended in its fetch.
TimerFetchAndUpdate(key) ==
    /\ timers[key] # << >>
    /\ timers' = [timers EXCEPT ![key] = Tail(@)]
    /\ updates' = IF stopWeather THEN updates ELSE [updates EXCEPT ![key] = @ + 1]
    /\ UNCHANGED <<feedVars, last, loopVars, nextUpdateTimes, stopWeather>>

\* update() of key resolves, modified or not: the then callback reads the next
\* update time of the page's data and calls scheduleNextUpdate(key).
UpdateThen(key, nextUpdateTime) ==
    /\ updates[key] > 0
    /\ updates' = [updates EXCEPT ![key] = @ - 1]
    /\ nextUpdateTimes' = [nextUpdateTimes EXCEPT ![key] = nextUpdateTime]
    /\ timers' = scheduleNextUpdate(key, nextUpdateTimes')
    /\ UNCHANGED <<feedVars, last, loopVars, stopWeather>>

\* update() of key rejects (fetch failed, JSON.parse or a missing element threw):
\* then() was given no rejection handler, nothing runs.
UpdateUnhandled(key) ==
    /\ updates[key] > 0
    /\ updates' = [updates EXCEPT ![key] = @ - 1]
    /\ UNCHANGED <<feedVars, last, loopVars, timers, nextUpdateTimes, stopWeather>>

\* Something outside the scheduler sets window.stopWeather
SetStopWeather ==
    /\ ~stopWeather
    /\ stopWeather' = TRUE
    /\ UNCHANGED <<feedVars, last, loopVars, timers, updates, nextUpdateTimes>>

WeatherTimer == \E key \in Keys : TimerFetchAndUpdate(key)
WeatherResolved == \E key \in Keys : \E t \in NextUpdateTimes : UpdateThen(key, t)
WeatherRejected == \E key \in Keys : UpdateUnhandled(key)

NextWeather == WeatherTimer \/ WeatherResolved \/ WeatherRejected \/ SetStopWeather

SpecWeather == InitWeather /\ [][NextWeather]_vars

\* The scheduler runs on: an armed timer fires, and a pending update() settles,
\* resolved or rejected.
SpecWeatherFair ==
    /\ SpecWeather
    /\ \A key \in Keys :
          /\ WF_vars(TimerFetchAndUpdate(key))
          /\ WF_vars(UpdateUnhandled(key) \/ \E t \in NextUpdateTimes : UpdateThen(key, t))

----------------------------------------------------------------------------
\* The chained weather poller of the other weather script: one timer whose
\* callback fetchAndUpdate starts a round of updateWeather and updateForecast.

\* At most MaxPending executions of an update function are pending at a time.
MaxPending == 3

\* The one timer of the poller is kept under the name of its callback.
Round == "fetchAndUpdate"

\* window.setTimeout(fetchAndUpdate, weatherUpdateInterval) at load
InitChained ==
    /\ title = "" /\ link = "" /\ description = ""
    /\ buildDate = NaN
    /\ itemsByStartTime = EmptyMap
    /\ itemsById = EmptyMap
    /\ nextDate = 1
    /\ last = NoLast
    /\ pc = "none" /\ feedObj = "null" /\ listEl = << >>
    /\ stopUpdating = FALSE /\ maxItems = NoLimit
    /\ nextUpdateTimes = [key \in Keys |-> NoTime]
    /\ timers = [t \in {Round} |-> <<weatherUpdateInterval>>]
    /\ updates = [key \in Keys |-> 0]
    /\ stopWeather = FALSE

\* The timer fires: fetchAndUpdate().  With stopWeather set it returns.  Otherwise
\* it evaluates updateWeather().then(updateForecast().then(window.setTimeout(...))):
\* updateWeather() is called, and to build the argument of its then,
\* updateForecast() is called, and to build the argument of that then,
\* window.setTimeout(fetchAndUpdate, weatherUpdateInterval) is called; both updates
\* are then suspended in their fetch.  The values handed to then are a promise and
\* a timer id, no functions, and then ignores them.
ChainedFetchAndUpdate ==
    /\ timers[Round] # << >>
    /\ IF stopWeather
       THEN /\ timers' = [timers EXCEPT ![Round] = Tail(@)]
            /\ updates' = updates
            /\ last' = [NoLast EXCEPT !.op = "fetchAndUpdate", !.resp = "stopped"]
       ELSE /\ \A key \in Keys : updates[key] < MaxPending
            /\ updates' = [key \in Keys |-> updates[key] + 1]
            /\ timers' = [timers EXCEPT ![Round] = Append(Tail(@), weatherUpdateInterval)]
            /\ last' = [NoLast EXCEPT !.op = "fetchAndUpdate", !.resp = "started"]
    /\ UNCHANGED <<feedVars, loopVars, nextUpdateTimes, stopWeather>>

\* An updateWeather() or updateForecast() in progress returns: its promise resolves.
ChainedResolved(key) ==
    /\ updates[key] > 0
    /\ updates' = [updates EXCEPT ![key] = @ - 1]
    /\ last' = [NoLast EXCEPT !.op = key]
    /\ UNCHANGED <<feedVars, loopVars, timers, nextUpdateTimes, stopWeather>>

\* It throws (fetch failed, JSON.parse or a missing element): its promise rejects,
\* and nothing handles the rejection.
ChainedRejected(key) ==
    /\ updates[key] > 0
    /\ updates' = [updates EXCEPT ![key] = @ - 1]
    /\ last' = [NoLast EXCEPT !.op = key, !.err = "rejected"]
    /\ UNCHANGED <<feedVars, loopVars, timers, nextUpdateTimes, stopWeather>>

ChainedUpdateResolved == \E key \in Keys : ChainedResolved(key)
ChainedUpdateRejected == \E key \in Keys : ChainedRejected(key)

NextChained ==
    \/ ChainedFetchAndUpdate \/ ChainedUpdateResolved \/ ChainedUpdateRejected
    \/ SetStopWeather

SpecChained == InitChained /\ [][NextChained]_vars

----------------------------------------------------------------------------
\* FeedItem.parse on its own, with every field of the entry.

ParseTitles == {"A", "B", "A || 1"}
Descriptions == {"room 1", "room 2"}

\* A raw <item> element with all the texts parse reads: start and end are the
\* instants the first and the second part of EventDates/EventTimes parse to.
RawEntries == [title : ParseTitles, pubDate : BuildDates, description : Descriptions,
               start : Times \cup {NaN}, end : Times \cup {NaN}]

\* parseCalendarEventDate(eventDates[1], eventTimes[1]): a fresh Date for the end.
parseCalendarEventEnd(raw, ref) == [ref |-> ref, ms |-> raw.end]

\* FeedItem.parse with all the fields of the item: [err, item].
FeedItemParse(raw, ref) ==
    LET startTime == parseCalendarEventDate(raw, ref)
        endTime == parseCalendarEventEnd(raw, ref + 1)
    IN  IF IsInvalidDate(startTime)
        THEN [err |-> "invalid date", item |-> NoItem]
        ELSE [err |-> "none",
              item |-> [title |-> raw.title, pubDate |-> raw.pubDate,
                        description |-> raw.description,
                        startTime |-> startTime, endTime |-> endTime]]

\* An id made of the title alone.
idTextOfTitle(item) == item.title

\* get id() as the string it is: `${this.title} || ${this.timeStamp}`
idText(item) == item.title \o " || " \o ToString(timeStamp(item))

ParseEntry(raw) ==
    \E p \in {FeedItemParse(raw, nextDate)} :
        /\ last' = [op |-> "parse", raw |-> raw, err |-> p.err, item |-> p.item,
                    id |-> IF p.err = "none" THEN idText(p.item) ELSE ""]
        /\ UNCHANGED <<feedVars, loopVars, weatherVars>>

CallParse == \E raw \in RawEntries : ParseEntry(raw)

NextParse == CallParse

SpecParse == InitFeed /\ [][NextParse]_vars

----------------------------------------------------------------------------
\* The claims.

\* The identities of the entries of a channel (of those that parse).
DocIds(doc) == {<<doc.items[i].title, doc.items[i].start>> :
                    i \in {j \in 1..Len(doc.items) : doc.items[j].start # NaN}}

\* The items a bucket holds: its slots that are not vacated.
Held(subArr) == {i \in 1..Len(subArr) : subArr[i] # Hole}

HasHole == \E d \in DOMAIN itemsByStartTime :
               \E i \in 1..Len(itemsByStartTime[d]) : itemsByStartTime[d][i] = Hole

C2_NoEmptyBucket ==
    \A d \in DOMAIN itemsByStartTime : Held(itemsByStartTime[d]) # {}

\* C3: an update that proceeds and returns leaves in itemsById exactly the
\* identities of the entries of the channel it was given.
C3_FeedMatchesChannel ==
    \A doc \in Docs :
        LET f == update(ThisFeed, doc)
        IN  (f.err = "none" /\ ~f.skipped) => DOMAIN f.itemsById = DocIds(doc)

\* C4: an update with a channel whose build date is strictly greater than the
\* feed's returns changed = false and an empty removal set and leaves both maps
\* and the build date of the feed as they were, whatever the channel's entries.
C4_NewerBuildIsNoOp ==
    \A doc \in Docs :
        (doc.lastBuildDate # NaN /\ buildDate # NaN /\ doc.lastBuildDate > buildDate) =>
            LET f == update(ThisFeed, doc)
            IN  /\ f.err = "none"
                /\ f.changed = FALSE
                /\ f.removed = {}
                /\ f.itemsById = itemsById
                /\ f.itemsByStartTime = itemsByStartTime
                /\ f.buildDate = buildDate

\* An update was skipped on a feed that holds items.
C4_Witness ==
    /\ last.op = "update" /\ last.skipped /\ ~last.changed
    /\ DOMAIN itemsById # {}

\* C5: the feed holding A (09:00) and B (10:00), updated with the channel <<B, C>>
\* (C at 11:00) through the gate, returns changed = true and the removal set {A, B},
\* and sortedItems is then the one-element sequence of C.
C5_ScenarioLeavesOnlyC ==
    \A doc \in ScenarioDocs :
        (/\ DOMAIN itemsById = {<<"A", 9>>, <<"B", 10>>}
         /\ doc.items = <<ItemB, ItemC>>
         /\ doc.lastBuildDate # Missing
         /\ ~(doc.lastBuildDate # NaN /\ buildDate # NaN /\ doc.lastBuildDate > buildDate)) =>
            LET f == update(ThisFeed, doc)
                items == sortedItems(f.itemsByStartTime)
            IN  /\ f.err = "none"
                /\ f.changed
                /\ f.removed = {<<"A", 9>>, <<"B", 10>>}
                /\ Len(items) = 1
                /\ id(items[1]) = <<"C", 11>>

\* C6: the changed flag an update returns is true exactly when the set of ids of
\* the feed after the call differs from the set before it.
C6_ChangedIffIdsDiffer ==
    \A doc \in Docs :
        LET f == update(ThisFeed, doc)
        IN  f.err = "none" => (f.changed <=> DOMAIN f.itemsById # DOMAIN itemsById)

\* An update has proceeded and returned changed = true with items left in the feed.
C6_Witness ==
    /\ last.op = "update" /\ last.err = "none" /\ ~last.skipped /\ last.changed
    /\ DOMAIN itemsById # {}

\* C7: an update cycle whose fetch yields null ends without an exception caught
\* and logged by the loop, and leaves the feed and the display list as they were.
C7_NoContentIsNoOp ==
    [][(pc = "updating" /\ last'.op = "update" /\ last'.resp = "null") =>
           (last'.err = "none" /\ UNCHANGED <<feedVars, listEl>>)]_vars

\* C8: a cycle in which update throws on an entry that fails to parse leaves
\* itemsById and itemsByStartTime as they were before the cycle.
C8_FailedCycleKeepsFeed ==
    [][(pc = "updating" /\ last'.op = "update" /\ last'.err = "invalid date") =>
           (itemsById' = itemsById /\ itemsByStartTime' = itemsByStartTime)]_vars

\* C9: removeChild of an id that is not in itemsById throws the not-in-feed error
\* and leaves both maps as they were.
C9_RemoveAbsentFails ==
    \A itemId \in Ids :
        ~Has(itemsById, itemId) =>
            LET f == removeChild(ThisFeed, itemId)
            IN  /\ f.err = "not in feed"
                /\ f.itemsById = itemsById
                /\ f.itemsByStartTime = itemsByStartTime

\* removeChild has thrown not-in-feed on a feed that holds an item.
C9_Witness ==
    /\ last.op = "removeChild" /\ last.err = "not in feed"
    /\ DOMAIN itemsById # {}

\* C10: parseChild of an entry whose id is in itemsById returns created = false
\* with the stored item and changes neither map; of an entry whose id is not, it
\* returns created = true with the new item, which is then the value of its id and
\* the last element of the bucket of its startTime, nothing else being changed.
C10_ParseChildDedups ==
    \A itemEl \in {e \in Entries : e.start # NaN} :
        LET f == parseChild(ThisFeed, itemEl)
            itemId == <<itemEl.title, itemEl.start>>
        IN  /\ f.err = "none"
            /\ IF Has(itemsById, itemId)
               THEN /\ ~f.created
                    /\ f.item = itemsById[itemId]
                    /\ f.itemsById = itemsById
                    /\ f.itemsByStartTime = itemsByStartTime
               ELSE /\ f.created
                    /\ f.item.title = itemEl.title /\ timeStamp(f.item) = itemEl.start
                    /\ DOMAIN f.itemsById = DOMAIN itemsById \cup {itemId}
                    /\ f.itemsById[itemId] = f.item
                    /\ \A i \in DOMAIN itemsById : f.itemsById[i] = itemsById[i]
                    /\ Has(f.itemsByStartTime, f.item.startTime)
                    /\ LET subArr == f.itemsByStartTime[f.item.startTime]
                       IN  Len(subArr) > 0 /\ subArr[Len(subArr)] = f.item
                    /\ \A d \in DOMAIN itemsByStartTime :
                         /\ Has(f.itemsByStartTime, d)
                         /\ d # f.item.startTime => f.itemsByStartTime[d] = itemsByStartTime[d]

\* parseChild has met an entry whose id was in the feed.
C10_Witness ==
    /\ last.op = "parseChild" /\ last.err = "none" /\ ~last.created
    /\ DOMAIN itemsById # {}

C12_SortedItemsAreTheItems ==
    LET items == sortedItems(itemsByStartTime)
    IN  /\ \A k \in 1..Len(items) :
               /\ items[k] # Hole
               /\ Has(itemsById, id(items[k]))
               /\ itemsById[id(items[k])] = items[k]
        /\ \A i \in DOMAIN itemsById :
               Cardinality({k \in 1..Len(items) : items[k] = itemsById[i]}) = 1
        /\ \A j, k \in 1..Len(items) :
               (j < k /\ timeStamp(items[j]) = timeStamp(items[k])) =>
                   items[j].startTime.ref < items[k].startTime.ref

\* C13: sortedStartTimes yields instants in strictly ascending order, none of them
\* twice, and each of them is the startTime of an item of itemsById.
C13_DistinctStartTimes ==
    LET dts == sortedStartTimes(itemsByStartTime)
    IN  /\ \A i, j \in 1..Len(dts) : i < j => dts[i].ms < dts[j].ms
        /\ \A i \in 1..Len(dts) :
               \E k \in DOMAIN itemsById : timeStamp(itemsById[k]) = dts[i].ms

\* C14: itemsByStartTime never holds two buckets for one instant: the addChild of
\* a new item makes a bucket only when no key of the map denotes the item's
\* instant, and otherwise appends the item to the bucket of that instant.
C14_OneBucketPerInstant ==
    /\ \A d, e \in DOMAIN itemsByStartTime : d.ms = e.ms => d = e
    /\ \A itemEl \in {x \in Entries : x.start # NaN} :
          LET f == parseChild(ThisFeed, itemEl)
              same == {d \in DOMAIN itemsByStartTime : d.ms = itemEl.start}
          IN  f.created =>
                  IF same = {}
                  THEN /\ DOMAIN f.itemsByStartTime =
                              DOMAIN itemsByStartTime \cup {f.item.startTime}
                       /\ f.itemsByStartTime[f.item.startTime] = <<f.item>>
                  ELSE /\ DOMAIN f.itemsByStartTime = DOMAIN itemsByStartTime
                       /\ \E d \in same :
                              f.itemsByStartTime[d] = Append(itemsByStartTime[d], f.item)

\* C15: nextItem returns nothing exactly when itemsById is empty; otherwise it
\* returns the first element of sortedItems, an item of itemsById whose startTime
\* is the least of the feed.
C15_NextItemIsEarliest ==
    LET item == nextItem(itemsByStartTime)
    IN  IF DOMAIN itemsById = {}
        THEN item = NoItem
        ELSE /\ item # NoItem
             /\ item = sortedItems(itemsByStartTime)[1]
             /\ Has(itemsById, id(item))
             /\ itemsById[id(item)] = item
             /\ \A k \in DOMAIN itemsById : timeStamp(item) <= timeStamp(itemsById[k])

\* C16: with maxItems = limit, sortedHtmlElems yields the elements of the first
\* min(limit, n) elements of sortedItems, in their order, n being the number of
\* items of the feed: never more than limit, and none when limit is 0.
C16_BoundedSortedItems ==
    \A limit \in 0..MaxDates :
        LET r == sortedHtmlElems(itemsByStartTime, limit)
            items == sortedItems(itemsByStartTime)
            n == Cardinality(DOMAIN itemsById)
            m == IF limit < n THEN limit ELSE n
        IN  /\ r.err = "none"
            /\ Len(r.elems) = m
            /\ \A k \in 1..m : items[k] # Hole /\ r.elems[k] = id(items[k])

\* The fields of the outcome of an update that a caller can see.
SameOutcome(f, g) ==
    /\ f.err = g.err /\ f.skipped = g.skipped
    /\ f.changed = g.changed /\ f.removed = g.removed
    /\ f.itemsById = g.itemsById /\ f.itemsByStartTime = g.itemsByStartTime

\* C17: an update with a channel whose build date equals the feed's, or whose
\* build date is missing or does not parse, proceeds: it handles the entries and
\* removes exactly as it does for the same channel with a build date older than
\* the feed's.
C17_NotNewerProceeds ==
    \A doc \in Docs :
        (doc.lastBuildDate = buildDate \/ doc.lastBuildDate \in {Missing, NaN}) =>
            LET f == update(ThisFeed, doc)
                g == update([ThisFeed EXCEPT !.buildDate = MaxBuild],
                            [doc EXCEPT !.lastBuildDate = MaxBuild - 1])
            IN  ~f.skipped /\ SameOutcome(f, g)

\* C18: an update that proceeds and returns gives as its removal set the set of
\* all ids that were in itemsById just before the call, and none of these ids is
\* in itemsById after it, those of entries of the channel included.
C18_RemovesAllPriorIds ==
    \A doc \in Docs :
        LET f == update(ThisFeed, doc)
        IN  (f.err = "none" /\ ~f.skipped) =>
                /\ f.removed = DOMAIN itemsById
                /\ DOMAIN f.itemsById \cap DOMAIN itemsById = {}

\* An update has proceeded whose last entry was in the feed already, and its
\* removals have left the feed without items.
C18_Witness ==
    /\ last.op = "update" /\ last.err = "none" /\ ~last.skipped
    /\ last.changed /\ ~last.created
    /\ HasHole /\ DOMAIN itemsById = {}

\* C19: a cycle, build or update, that ends with an exception ends like any other:
\* the error is caught and the loop goes to its timer, never out of the loop; the
\* timer is followed by the loop's test and by nothing else, the loop ends only at
\* that test with stopUpdating set, and every timer wait comes to its end.
C19_FailedCycleWaitsAndGoesOn ==
    /\ [][(pc \in {"building", "updating"} /\ pc' # pc) => pc' = "timer"]_vars
    /\ [][(pc = "timer" /\ pc' # pc) => pc' = "loop"]_vars
    /\ [][(pc' = "done" /\ pc # "done") => (pc = "loop" /\ stopUpdating)]_vars
    /\ (pc = "timer") ~> (pc = "loop")

\* After an update cycle that ended with an exception and the timer that followed
\* it, the loop is at its test again.
C19_Witness ==
    /\ pc = "loop" /\ feedObj = "feed"
    /\ last.op = "update" /\ last.err # "none"

\* C20: the cycles of the loop do not overlap: the feed and the display list are
\* assigned only by the step that completes the fetch of the one cycle in progress,
\* the timer starts only when that step is done, and a fetch is begun only at the
\* loop's test, which is reached only from the start or from a timer that fired.
C20_CyclesAreSerial ==
    /\ [][(feedVars' # feedVars \/ listEl' # listEl) =>
              (pc \in {"building", "updating"} /\ pc' = "timer")]_vars
    /\ [][(pc' = "timer" /\ pc # "timer") => pc \in {"building", "updating"}]_vars
    /\ [][(pc' \in {"building", "updating"} /\ pc # pc') => pc = "loop"]_vars
    /\ [][(pc' = "loop" /\ pc # "loop") => pc = "timer"]_vars

\* A further update cycle has begun its fetch after an update cycle that changed
\* the feed.
C20_Witness ==
    /\ pc = "updating"
    /\ last.op = "update" /\ last.err = "none" /\ last.changed

\* C21: window.stopUpdating is read at the loop's test only: setting it changes
\* nothing else, a cycle in progress when it is set goes on to its timer and the
\* timer to the loop's test, no cycle is begun while it is set, and once it is set
\* buildAndUpdate comes to its end.
C21_StopIsCooperative ==
    /\ [][stopUpdating' # stopUpdating =>
              (pc' = pc /\ UNCHANGED <<feedVars, last, feedObj, listEl>>)]_vars
    /\ [][(stopUpdating /\ pc \in {"building", "updating"} /\ pc' # pc) =>
              pc' = "timer"]_vars
    /\ [][(stopUpdating /\ pc = "timer" /\ pc' # pc) => pc' = "loop"]_vars
    /\ [][(pc' \in {"building", "updating"} /\ pc' # pc) =>
              (pc = "loop" /\ ~stopUpdating)]_vars
    /\ stopUpdating ~> (pc = "done")

\* buildAndUpdate has ended after an update cycle.
C21_Witness ==
    /\ pc = "done" /\ stopUpdating
    /\ feedObj = "feed" /\ last.op = "update"

\* C22: the loop holds one feed for its life: while feedObj is null a cycle is a
\* build and never an update, feedObj is assigned only by a build that returned a
\* feed, and from then on every cycle is an update of that feed: feedObj is never
\* assigned again and no build is begun.
C22_OneLongLivedFeed ==
    /\ [][(pc' = "building" /\ pc # pc') => feedObj = "null"]_vars
    /\ [][(pc' = "updating" /\ pc # pc') => feedObj = "feed"]_vars
    /\ [][feedObj' # feedObj =>
              (/\ pc = "building" /\ feedObj = "null" /\ feedObj' = "feed"
               /\ last'.op = "build" /\ last'.err = "none")]_vars
    /\ [][(feedObj = "null" /\ last' # last) => last'.op = "build"]_vars
    /\ [][(feedObj = "feed" /\ last' # last) => last'.op = "update"]_vars

\* A build is begun again after a build that raised.
C22_Witness ==
    /\ pc = "building" /\ feedObj = "null"
    /\ last.op = "build" /\ last.err # "none"

\* C23: the parse of an entry whose start is not a valid date fails and constructs
\* no item, parseChild of such an entry leaves both maps as they were, and no
\* reachable feed has an item with an invalid startTime in either map.
C23_InvalidStartNeverInserted ==
    /\ \A i \in DOMAIN itemsById : ~IsInvalidDate(itemsById[i].startTime)
    /\ \A d \in DOMAIN itemsByStartTime :
          /\ ~IsInvalidDate(d)
          /\ \A k \in Held(itemsByStartTime[d]) :
                 ~IsInvalidDate(itemsByStartTime[d][k].startTime)
    /\ \A itemEl \in {e \in Entries : e.start = NaN} :
          /\ parse(itemEl, nextDate).err = "invalid date"
          /\ parse(itemEl, nextDate).item = NoItem
          /\ LET f == parseChild(ThisFeed, itemEl)
             IN  /\ f.err = "invalid date"
                 /\ ~f.created /\ f.item = NoItem
                 /\ f.itemsById = itemsById
                 /\ f.itemsByStartTime = itemsByStartTime

\* parseChild has failed with the invalid-date error on a feed that holds an item.
C23_Witness ==
    /\ last.op = "parseChild" /\ last.err = "invalid date"
    /\ DOMAIN itemsById # {}

\* C24: the parse of an entry whose end is not a valid date fails with the
\* invalid-date error and constructs no item, whatever its start.
C24_InvalidEndFails ==
    (last.op = "parse" /\ last.raw.end = NaN) =>
        (last.err = "invalid date" /\ last.item = NoItem)

\* C25: the id of a parsed item is decided by its title and the instant of its
\* startTime and by nothing else: another parse, of whatever entry, gives the same
\* id exactly when the title and the start instant are the same (description,
\* pubDate, endTime and the Date objects may differ), and two ids are the same
\* string exactly when they are the same pair of title and instant.
C25_IdOfTitleAndStart ==
    (last.op = "parse" /\ last.err = "none") =>
        \A raw \in {r \in RawEntries : r.start # NaN} :
            LET other == FeedItemParse(raw, nextDate + 2).item
            IN  /\ (raw.title = last.raw.title /\ raw.start = last.raw.start)
                       <=> idText(other) = last.id
                /\ id(other) = id(last.item) <=> idText(other) = last.id

\* An entry whose title holds the separator of the id has been parsed into an item.
C25_Witness ==
    /\ last.op = "parse" /\ last.err = "none"
    /\ last.raw.title = "A || 1" /\ last.id = "A || 1 || 2"

\* The feed a call has left, as the record the next call works on.
After(f) == [ThisFeed EXCEPT !.itemsByStartTime = f.itemsByStartTime,
                             !.itemsById = f.itemsById, !.nextDate = f.nextDate]

\* C26: two updates in succession with the same channel, both proceeding and
\* returning: the ids of the feed after the second are those after the first, and
\* the second returns changed = false.
C26_UpdateIsIdempotent ==
    \A doc \in Docs :
        LET f == update(ThisFeed, doc)
            g == update(After(f), doc)
        IN  (f.err = "none" /\ ~f.skipped /\ g.err = "none" /\ ~g.skipped) =>
                (DOMAIN g.itemsById = DOMAIN f.itemsById /\ ~g.changed)

\* The elements a render is to leave in the list: one per item of the feed, in
\* the order of sortedItems, of the first limit items.
RECURSIVE ItemsOf(_)
ItemsOf(items) ==
    IF items = << >> THEN << >>
    ELSE IF Head(items) = Hole THEN ItemsOf(Tail(items))
    ELSE <<id(Head(items))>> \o ItemsOf(Tail(items))

Rendered(byStart, limit) ==
    LET all == ItemsOf(sortedItems(byStart))
    IN  IF limit = NoLimit \/ limit >= Len(all) THEN all ELSE SubSeq(all, 1, limit)

\* C27: an update cycle whose update returns changed = true renders without an
\* exception, and the list then holds one element per item of the first maxItems
\* items of the feed in sorted order: it is not left empty or partly filled.
C27_ChangedCycleRenders ==
    [][(/\ pc = "updating" /\ last'.op = "update" /\ last'.resp = "doc"
        /\ last'.changed /\ last'.err \in {"none", "undefined item"}) =>
           (/\ last'.err = "none"
            /\ listEl' = Rendered(itemsByStartTime', maxItems))]_vars

\* C28: update assigns neither buildDate nor title, link or description, whether
\* it skips or proceeds; the build date stays what the constructor was given, so
\* after an update with a strictly newer channel every update with a channel at
\* least that new is skipped and changes nothing.
C28_BuildDateIsNeverAssigned ==
    /\ [][/\ buildDate' = buildDate /\ title' = title
          /\ link' = link /\ description' = description]_vars
    /\ [](\A doc \in Docs : update(ThisFeed, doc).buildDate = buildDate)
    /\ [](\A b \in 1..MaxBuild : \A doc \in Docs :
             (/\ buildDate # NaN /\ b > buildDate
              /\ doc.lastBuildDate \in 1..MaxBuild /\ doc.lastBuildDate >= b) =>
                 LET f == update(ThisFeed, [doc EXCEPT !.lastBuildDate = b])
                     g == update(After(f), doc)
                 IN  /\ f.skipped /\ g.skipped /\ g.err = "none"
                     /\ ~g.changed /\ g.removed = {}
                     /\ g.itemsById = itemsById
                     /\ g.itemsByStartTime = itemsByStartTime
                     /\ g.buildDate = buildDate)

\* An update of a feed built at the first build date was skipped, the feed
\* holding items.
C28_Witness ==
    /\ last.op = "update" /\ last.skipped
    /\ buildDate = 1 /\ DOMAIN itemsById # {}

\* C29: from the empty feed, under any parseChild, update and removeChild calls,
\* removeChild never throws 'item not in subArray', and the removals of update
\* throw neither that error nor the not-in-feed error.
C29_NoInconsistentState ==
    /\ last.err # "item not in subArray"
    /\ \A itemId \in Ids : removeChild(ThisFeed, itemId).err # "item not in subArray"
    /\ \A doc \in Docs :
          update(ThisFeed, doc).err \notin {"item not in subArray", "not in feed"}

\* removeChild has removed an item of a feed that holds another.
C29_Witness ==
    /\ last.op = "removeChild" /\ last.err = "none"
    /\ HasHole /\ DOMAIN itemsById # {}

\* C30: in the scheduler of main.js a key has at any time at most one pending
\* timer or one pending update, never both and never two of either; a timer of a
\* key is armed only by the step that completes an update of that key, and an
\* update of a key is begun only by the step in which a timer of that key fires.
C30_OneTimerOrOneUpdate ==
    /\ [](\A key \in Keys : Len(timers[key]) + updates[key] <= 1)
    /\ [][\A key \in Keys :
              /\ Len(timers'[key]) > Len(timers[key]) =>
                     (updates[key] > 0 /\ updates'[key] = updates[key] - 1)
              /\ updates'[key] > updates[key] =>
                     (timers[key] # << >> /\ timers'[key] = Tail(timers[key]))]_vars

\* An update of the weather is pending while the forecast waits for a timer that
\* scheduleNextUpdate armed with the least delay.
C30_Witness ==
    /\ updates["weather"] = 1 /\ timers["weather"] = << >>
    /\ updates["forecast"] = 0 /\ timers["forecast"] = <<MinDelay>>
    /\ nextUpdateTimes["forecast"] = 500

\* C31: in the scheduler of main.js every update of a key that is begun is in the
\* end followed by a timer armed for the next update of that key, whether the
\* update resolves or rejects, unless window.stopWeather is set.
C31_PollingNeverStops ==
    \A key \in Keys :
        [](updates[key] > 0 => <>(stopWeather \/ timers[key] # << >>))

\* C32: a round of the chained poller is sequential: updateForecast is in progress
\* only once updateWeather has completed, the timer of the next round is pending
\* only once updateForecast has completed, and no update function has two
\* executions in progress at a time.
C32_RoundIsSequential ==
    /\ updates["forecast"] > 0 => updates["weather"] = 0
    /\ timers[Round] # << >> => \A key \in Keys : updates[key] = 0
    /\ \A key \in Keys : updates[key] <= 1

====
